---- MODULE Spec2Model ----
(***************************************************************************)
(* Model of the session-aware useGameWebSocket hook                        *)
(* (src/app/hooks/useGameWebSocket.ts, lines 30-334).                      *)
(*                                                                         *)
(* The hook runs on one event loop: every socket callback, timer callback  *)
(* and UI call is one atomic action.  React state (useState) is modelled   *)
(* as committed at the end of the handler that sets it.  Timers are        *)
(* modelled without a clock: a pending timer may fire at any later step;   *)
(* the delay a timer was armed with is kept in its record.                 *)
(*                                                                         *)
(* The browser's WebSocket is the environment: a socket that fails gets    *)
(* readyState CLOSED and then its error event and its close event in one   *)
(* task (pendingClose keeps the two callbacks adjacent); close() on an     *)
(* OPEN or CONNECTING socket makes it CLOSING at once and its close event  *)
(* comes later; a message event is delivered only while the socket is OPEN *)
(* (a message received in any other readyState is dropped by the browser). *)
(* A close started by the peer makes an OPEN socket CLOSING in one task    *)
(* and CLOSED, with its close event, in a later one.                       *)
(*                                                                         *)
(* A socket is garbage once it is CLOSED and neither wsRef nor a pending   *)
(* timer of its callbacks refers to it: no callback of it can run again.   *)
(* Every handler ends by dropping the garbage sockets (Collect), and        *)
(* connect() puts the new socket in the lowest empty slot.  The handle of  *)
(* a timeout that has fired is kept as Stale: clearTimeout ignores it.     *)
(***************************************************************************)
EXTENDS Integers, Sequences, FiniteSets, TLC

\* ---------------------------------------------------------------- bounds
MaxSockets == 2          \* sockets alive (not yet garbage) at one time
MaxPendingConnects == 1  \* pending delayed connects armed by reconnect()
MaxChat == 2             \* longest Chat History explored
NUsers == 1              \* distinct authenticated user ids

\* ------------------------------------------------------ program constants
MAX_RECONNECT_ATTEMPTS == 5
RECONNECT_DELAY == 1000
NORMAL_CLOSURE == 1000

CloseCodes == {NORMAL_CLOSURE, 1006}
PlayerActions == {"look", "north"}
Null == "null"
Undefined == "undefined"
Stale == -1
NoSocket == [readyState |-> "NONE", est |-> FALSE, userId |-> 0]

VARIABLES
    mountedRef,            \* mountedRef.current
    connectingRef,         \* connectingRef.current
    wsRef,                 \* wsRef.current: socket id, 0 = null
    reconnectTimeoutRef,   \* reconnectTimeoutRef.current: timer id, 0 = null
    pingIntervalRef,       \* pingIntervalRef.current: interval id, 0 = null
    reconnectAttemptsRef,  \* reconnectAttemptsRef.current
    isConnected,           \* useState isConnected
    chatHistory,           \* useState chatHistory
    gameState,             \* useState gameState (partial map)
    playerState,           \* useState playerState (partial map)
    lastError,             \* useState lastError
    status,                \* useSession().status
    userId,                \* useSession().data?.user?.id, 0 = missing
    sockets,               \* the WebSockets not yet garbage, by slot; est:
                           \* the connection is established and not closed
    reconnectTimers,       \* pending setTimeout armed by ws.onclose, by socket
    pingTimers,            \* active setInterval armed by ws.onopen
    delayedConnects,       \* pending setTimeout(100) armed by reconnect()
    connectTimeout,        \* pending setTimeout(100) of the readiness effect
    pendingClose,          \* socket whose close event must follow its error
    streamRun,             \* observer: current run of same-id streaming frames
    ev,                    \* observer: what the last handler did
    stats,                 \* character creation: playerState.stats
    availablePoints,       \* character creation: availablePoints
    mountEffectPending     \* character creation: the effect of the first
                           \* render has not run yet

refs == <<mountedRef, connectingRef, wsRef, reconnectTimeoutRef,
          pingIntervalRef, reconnectAttemptsRef>>
projections == <<chatHistory, gameState, playerState>>
session == <<status, userId>>
timers == <<reconnectTimers, pingTimers, delayedConnects, connectTimeout>>
hook == <<mountedRef, connectingRef, wsRef, reconnectTimeoutRef,
          pingIntervalRef, reconnectAttemptsRef, isConnected, chatHistory,
          gameState, playerState, lastError, status, userId, sockets,
          reconnectTimers, pingTimers, delayedConnects, connectTimeout,
          pendingClose, streamRun, ev>>
creation == <<stats, availablePoints, mountEffectPending>>
vars == <<mountedRef, connectingRef, wsRef, reconnectTimeoutRef,
          pingIntervalRef, reconnectAttemptsRef, isConnected, chatHistory,
          gameState, playerState, lastError, status, userId, sockets,
          reconnectTimers, pingTimers, delayedConnects, connectTimeout,
          pendingClose, streamRun, ev, stats, availablePoints,
          mountEffectPending>>

\* ---------------------------------------------------------------- helpers
RECURSIVE Pow2(_)
Pow2(n) == IF n = 0 THEN 1 ELSE 2 * Pow2(n - 1)

EmptyMap == [k \in {} |-> TRUE]   \* {} as GameState / CharacterState

NoRun == [id |-> "", n |-> 0, last |-> ""]

\* ev.op: the handler that ran last; ev.sent: the frames it passed to
\* ws.send; ev.calls: the observer callbacks it invoked
\* ev.created: whether it constructed a WebSocket; ev.delay: the delay of
\* the reconnect timeout it armed, 0 when it armed none; ev.type: the type
\* of the frame it received; ev.sock: the socket whose callback it is, 0
\* for the others; ev.code: the close code onclose received; ev.attempts:
\* the attempt counter onopen found; ev.action: the argument of sendAction
Ev(op) ==
    [op |-> op, sent |-> {}, calls |-> {}, created |-> FALSE, delay |-> 0,
     type |-> "", sock |-> 0, code |-> 0, attempts |-> 0, action |-> ""]

ReadyState(s) == IF s = 0 THEN Null ELSE sockets[s].readyState

\* mutant: the guard forgets CONNECTING
CloseSock_OnlyOpen(socks, s) ==
    IF s # 0 /\ socks[s].readyState = "OPEN"
    THEN [socks EXCEPT ![s].readyState = "CLOSING"]
    ELSE socks

\* mutant: the handle is released without closing the socket
CloseSock_Never(socks, s) == socks

\* ws.close(1000, ...) guarded by readyState OPEN or CONNECTING
CloseSock(socks, s) ==
    IF s # 0 /\ socks[s].readyState \in {"OPEN", "CONNECTING"}
    THEN [socks EXCEPT ![s].readyState = "CLOSING"]
    ELSE socks

\* ---------------------------------------------- character creation state
\* the point-buy budget: useState(27) and 27 - getTotalSpentPoints()
POINT_BUDGET == 27
\* the range adjustStat accepts for a stat
MIN_STAT == 8
MAX_STAT == 15

StatNames == {"strength", "dexterity", "constitution", "intelligence",
              "wisdom", "charisma"}

\* the stats of useState's initial playerState
InitialStats ==
    [strength |-> 15, dexterity |-> 13, constitution |-> 14,
     intelligence |-> 10, wisdom |-> 10, charisma |-> 10]

\* socks without its garbage, given the references that remain
Collect(socks, ws, rts, pts, pc) ==
    [s \in 1..MaxSockets |->
        IF /\ socks[s].readyState = "CLOSED"
           /\ s \notin {ws, pc} \cup pts \cup rts
        THEN NoSocket
        ELSE socks[s]]

Init ==
    /\ mountedRef = TRUE
    /\ connectingRef = FALSE
    /\ wsRef = 0
    /\ reconnectTimeoutRef = 0
    /\ pingIntervalRef = 0
    /\ reconnectAttemptsRef = 0
    /\ isConnected = FALSE
    /\ chatHistory = <<>>
    /\ gameState = EmptyMap
    /\ playerState = EmptyMap
    /\ lastError = Null
    /\ status = "loading"
    /\ userId = 0
    /\ sockets = [s \in 1..MaxSockets |-> NoSocket]
    /\ reconnectTimers = {}
    /\ pingTimers = {}
    /\ delayedConnects = [u \in 0..NUsers |-> 0]
    /\ connectTimeout = 0
    /\ pendingClose = 0
    /\ streamRun = NoRun
    /\ ev = Ev("init")
    /\ stats = InitialStats
    /\ availablePoints = POINT_BUDGET
    /\ mountEffectPending = TRUE

\* ------------------------------------------------------------- cleanup()
cleanup ==
    /\ reconnectTimers' = reconnectTimers \ {reconnectTimeoutRef}
    /\ reconnectTimeoutRef' = 0
    /\ pingTimers' = pingTimers \ {pingIntervalRef}
    /\ pingIntervalRef' = 0
    /\ sockets' = Collect(CloseSock(sockets, wsRef), 0, reconnectTimers',
                          pingTimers', 0)
    /\ wsRef' = 0
    /\ connectingRef' = FALSE

\* ------------------------------------------------------------- connect()
\* uid is session?.user?.id of the render whose connect closure is called
connectReturns(uid) ==
    \/ ~mountedRef
    \/ uid = 0
    \/ connectingRef
    \/ ReadyState(wsRef) = "OPEN"

\* The caller has set reconnectTimers' and pingTimers'.
connect(uid) ==
    IF connectReturns(uid)
    THEN /\ sockets' = Collect(sockets, wsRef, reconnectTimers',
                               pingTimers', 0)
         /\ UNCHANGED <<wsRef, connectingRef>>
    ELSE LET old == Collect(CloseSock(sockets, wsRef), 0, reconnectTimers',
                            pingTimers', 0)
             free == {s \in 1..MaxSockets : old[s].readyState = "NONE"}
         IN /\ free # {}
            /\ LET new == CHOOSE s \in free : \A r \in free : s <= r
               IN /\ sockets' = [old EXCEPT ![new] =
                        [readyState |-> "CONNECTING", est |-> FALSE,
                         userId |-> uid]]
                  /\ wsRef' = new
            /\ connectingRef' = TRUE

\* ------------------------------------------------------------ ws.onopen
\* mutant: a successful open leaves the attempt counter as it was
OnOpen_KeepsAttempts(s) ==
    /\ UNCHANGED creation
    /\ pendingClose = 0
    /\ s \in 1..MaxSockets
    /\ sockets[s].readyState = "CONNECTING"
    /\ IF ~mountedRef
       THEN /\ sockets' = [sockets EXCEPT ![s].readyState = "CLOSING",
                                          ![s].est = TRUE]
            /\ UNCHANGED <<connectingRef, isConnected, lastError,
                           reconnectAttemptsRef, pingTimers, pingIntervalRef>>
       ELSE /\ sockets' = [sockets EXCEPT ![s].readyState = "OPEN",
                                          ![s].est = TRUE]
            /\ connectingRef' = FALSE
            /\ isConnected' = TRUE
            /\ lastError' = Null
            /\ UNCHANGED reconnectAttemptsRef
            /\ pingTimers' = pingTimers \cup {s}
            /\ pingIntervalRef' = s
    /\ ev' = [Ev("onopen") EXCEPT
                 !.calls = IF mountedRef THEN {"onConnectionChange"} ELSE {},
                 !.sock = s,
                 !.attempts = reconnectAttemptsRef]
    /\ streamRun' = NoRun
    /\ UNCHANGED <<mountedRef, wsRef, reconnectTimeoutRef, projections,
                   session, reconnectTimers, delayedConnects, connectTimeout,
                   pendingClose>>

OnOpen(s) ==
    /\ UNCHANGED creation
    /\ pendingClose = 0
    /\ s \in 1..MaxSockets
    /\ sockets[s].readyState = "CONNECTING"
    /\ IF ~mountedRef
       THEN /\ sockets' = [sockets EXCEPT ![s].readyState = "CLOSING",
                                          ![s].est = TRUE]
            /\ UNCHANGED <<connectingRef, isConnected, lastError,
                           reconnectAttemptsRef, pingTimers, pingIntervalRef>>
       ELSE /\ sockets' = [sockets EXCEPT ![s].readyState = "OPEN",
                                          ![s].est = TRUE]
            /\ connectingRef' = FALSE
            /\ isConnected' = TRUE
            /\ lastError' = Null
            /\ reconnectAttemptsRef' = 0
            /\ pingTimers' = pingTimers \cup {s}
            /\ pingIntervalRef' = s
    /\ ev' = [Ev("onopen") EXCEPT
                 !.calls = IF mountedRef THEN {"onConnectionChange"} ELSE {},
                 !.sock = s,
                 !.attempts = reconnectAttemptsRef]
    /\ streamRun' = NoRun
    /\ UNCHANGED <<mountedRef, wsRef, reconnectTimeoutRef, projections,
                   session, reconnectTimers, delayedConnects, connectTimeout,
                   pendingClose>>

\* mutant: the keepalive callback transmits an action kept from an earlier
\* sendAction call
PingTick_Resends(s) ==
    /\ UNCHANGED creation
    /\ pendingClose = 0
    /\ s \in pingTimers
    /\ ev' = [Ev("ping") EXCEPT !.sent =
                IF sockets[s].readyState = "OPEN" /\ mountedRef
                THEN {[type |-> "ping", action |-> "", sock |-> s],
                      [type |-> "player_action", action |-> "look",
                       sock |-> s]}
                ELSE {}]
    /\ streamRun' = NoRun
    /\ UNCHANGED <<refs, isConnected, projections, lastError, session,
                   sockets, timers, pendingClose>>

\* the keepalive callback armed by the onopen of socket s
PingTick(s) ==
    /\ UNCHANGED creation
    /\ pendingClose = 0
    /\ s \in pingTimers
    /\ ev' = [Ev("ping") EXCEPT !.sent =
                IF sockets[s].readyState = "OPEN" /\ mountedRef
                THEN {[type |-> "ping", action |-> "", sock |-> s]}
                ELSE {}]
    /\ streamRun' = NoRun
    /\ UNCHANGED <<refs, isConnected, projections, lastError, session,
                   sockets, timers, pendingClose>>

\* ----------------------------------------------------------- ws.onerror
\* mutant: the error is surfaced without the mounted check
OnError_Unguarded(s) ==
    /\ UNCHANGED creation
    /\ pendingClose = 0
    /\ s \in 1..MaxSockets
    /\ sockets[s].readyState \in {"CONNECTING", "OPEN", "CLOSING"}
    /\ sockets' = [sockets EXCEPT ![s].readyState = "CLOSED",
                                  ![s].est = FALSE]
    /\ pendingClose' = s
    /\ connectingRef' = FALSE
    /\ lastError' = "WebSocket connection error"
    /\ ev' = [Ev("onerror") EXCEPT !.calls = {"onError"}, !.sock = s]
    /\ streamRun' = NoRun
    /\ UNCHANGED <<mountedRef, wsRef, reconnectTimeoutRef, pingIntervalRef,
                   reconnectAttemptsRef, isConnected, projections, session,
                   timers>>

\* mutant: the error handler schedules a retry of its own
OnError_Retries(s) ==
    /\ UNCHANGED creation
    /\ pendingClose = 0
    /\ s \in 1..MaxSockets
    /\ sockets[s].readyState \in {"CONNECTING", "OPEN", "CLOSING"}
    /\ sockets' = [sockets EXCEPT ![s].readyState = "CLOSED",
                                  ![s].est = FALSE]
    /\ pendingClose' = s
    /\ connectingRef' = FALSE
    /\ lastError' = IF mountedRef THEN "WebSocket connection error"
                                  ELSE lastError
    /\ reconnectTimers' = IF mountedRef THEN reconnectTimers \cup {s}
                                        ELSE reconnectTimers
    /\ reconnectTimeoutRef' = IF mountedRef THEN s ELSE reconnectTimeoutRef
    /\ ev' = [Ev("onerror") EXCEPT
                 !.calls = IF mountedRef THEN {"onError"} ELSE {},
                 !.sock = s]
    /\ streamRun' = NoRun
    /\ UNCHANGED <<mountedRef, wsRef, pingIntervalRef, reconnectAttemptsRef,
                   isConnected, projections, session, pingTimers,
                   delayedConnects, connectTimeout>>

\* The connection of socket s fails: readyState becomes CLOSED, the error
\* event fires, and the close event (code 1006) follows in the same task.
OnError(s) ==
    /\ UNCHANGED creation
    /\ pendingClose = 0
    /\ s \in 1..MaxSockets
    /\ sockets[s].readyState \in {"CONNECTING", "OPEN", "CLOSING"}
    /\ sockets' = [sockets EXCEPT ![s].readyState = "CLOSED",
                                  ![s].est = FALSE]
    /\ pendingClose' = s
    /\ connectingRef' = FALSE
    /\ lastError' = IF mountedRef THEN "WebSocket connection error"
                                  ELSE lastError
    /\ ev' = [Ev("onerror") EXCEPT
                 !.calls = IF mountedRef THEN {"onError"} ELSE {},
                 !.sock = s]
    /\ streamRun' = NoRun
    /\ UNCHANGED <<mountedRef, wsRef, reconnectTimeoutRef, pingIntervalRef,
                   reconnectAttemptsRef, isConnected, projections, session,
                   timers>>

\* The peer starts the closing handshake of the open socket s: readyState
\* becomes CLOSING and no callback runs; the close event comes later.
OnClosingHandshake(s) ==
    /\ UNCHANGED creation
    /\ pendingClose = 0
    /\ s \in 1..MaxSockets
    /\ sockets[s].est
    /\ sockets[s].readyState = "OPEN"
    /\ sockets' = [sockets EXCEPT ![s].readyState = "CLOSING"]
    /\ ev' = [Ev("closingHandshake") EXCEPT !.sock = s]
    /\ streamRun' = NoRun
    /\ UNCHANGED <<refs, isConnected, projections, lastError, session,
                   timers, pendingClose>>

\* ----------------------------------------------------------- ws.onclose
\* Either the close event that ends a failure (code 1006), or the close of
\* an established socket: the end of a closing handshake or a close by the
\* server, with the code the peer sent.
OnClose(s, code) ==
    /\ UNCHANGED creation
    /\ s \in 1..MaxSockets
    /\ \/ pendingClose = s /\ code # NORMAL_CLOSURE
       \/ /\ pendingClose = 0
          /\ sockets[s].est
          /\ sockets[s].readyState \in {"OPEN", "CLOSING"}
    /\ pendingClose' = 0
    /\ connectingRef' = FALSE
    /\ IF ~mountedRef
       THEN UNCHANGED <<isConnected, pingTimers, pingIntervalRef,
                        reconnectTimers, reconnectTimeoutRef>>
       ELSE /\ isConnected' = FALSE
            /\ pingTimers' = pingTimers \ {pingIntervalRef}
            /\ pingIntervalRef' = 0
            /\ IF code # NORMAL_CLOSURE
                  /\ reconnectAttemptsRef < MAX_RECONNECT_ATTEMPTS
               THEN /\ reconnectTimers' = reconnectTimers \cup {s}
                    /\ reconnectTimeoutRef' = s
               ELSE UNCHANGED <<reconnectTimers, reconnectTimeoutRef>>
    /\ sockets' = Collect([sockets EXCEPT ![s].readyState = "CLOSED",
                                          ![s].est = FALSE],
                          wsRef, reconnectTimers', pingTimers', 0)
    /\ ev' = [Ev("onclose") EXCEPT
                 !.calls = IF mountedRef THEN {"onConnectionChange"} ELSE {},
                 !.sock = s,
                 !.code = code,
                 !.delay = IF s \in reconnectTimers' \ reconnectTimers
                           THEN RECONNECT_DELAY * Pow2(reconnectAttemptsRef)
                           ELSE 0]
    /\ streamRun' = NoRun
    /\ UNCHANGED <<mountedRef, wsRef, reconnectAttemptsRef, projections,
                   lastError, session, delayedConnects, connectTimeout>>

\* the setTimeout callback armed by ws.onclose of socket t; its connect is
\* the closure that created that socket
ReconnectTimeoutFire(t) ==
    /\ UNCHANGED creation
    /\ pendingClose = 0
    /\ t \in reconnectTimers
    /\ reconnectTimers' = reconnectTimers \ {t}
    /\ UNCHANGED pingTimers
    /\ IF mountedRef /\ ~connectingRef
       THEN /\ reconnectAttemptsRef' = reconnectAttemptsRef + 1
            /\ connect(sockets[t].userId)
       ELSE /\ sockets' = Collect(sockets, wsRef, reconnectTimers',
                                  pingTimers', 0)
            /\ UNCHANGED <<reconnectAttemptsRef, wsRef, connectingRef>>
    /\ reconnectTimeoutRef' =
            IF reconnectTimeoutRef = t THEN Stale ELSE reconnectTimeoutRef
    /\ ev' = [Ev("reconnectTimeout") EXCEPT !.created =
                mountedRef /\ ~connectReturns(sockets[t].userId)]
    /\ streamRun' = NoRun
    /\ UNCHANGED <<mountedRef, pingIntervalRef, isConnected, projections,
                   lastError, session, delayedConnects, connectTimeout,
                   pendingClose>>

\* ----------------------------------------------------------- reconnect()
reconnect ==
    /\ UNCHANGED creation
    /\ pendingClose = 0
    /\ mountedRef
    /\ delayedConnects[userId] < MaxPendingConnects
    /\ cleanup
    /\ reconnectAttemptsRef' = 0
    /\ lastError' = Null
    /\ delayedConnects' = [delayedConnects EXCEPT ![userId] = @ + 1]
    /\ ev' = Ev("reconnect")
    /\ streamRun' = NoRun
    /\ UNCHANGED <<mountedRef, isConnected, projections, session,
                   connectTimeout, pendingClose>>

\* the setTimeout(100) callback armed by reconnect() under user id u
DelayedConnectFire(u) ==
    /\ UNCHANGED creation
    /\ pendingClose = 0
    /\ u \in DOMAIN delayedConnects
    /\ delayedConnects[u] > 0
    /\ delayedConnects' = [delayedConnects EXCEPT ![u] = @ - 1]
    /\ UNCHANGED <<reconnectTimers, pingTimers>>
    /\ IF mountedRef
       THEN connect(u)
       ELSE UNCHANGED <<sockets, wsRef, connectingRef>>
    /\ ev' = [Ev("delayedConnect") EXCEPT !.created = ~connectReturns(u)]
    /\ streamRun' = NoRun
    /\ UNCHANGED <<mountedRef, reconnectTimeoutRef, pingIntervalRef,
                   reconnectAttemptsRef, isConnected, projections, lastError,
                   session, connectTimeout, pendingClose>>

\* ------------------------------------------- credential-readiness effect
\* useSession() yields a new (status, user id); the effect's cleanup clears
\* its pending timeout and the effect arms a new one when authenticated.
AuthenticatedValues == {<<"authenticated", u>> : u \in 1..NUsers}
SessionValues ==
    {<<"loading", 0>>, <<"unauthenticated", 0>>, <<"authenticated", 0>>}
        \cup AuthenticatedValues

SessionUpdate(st, u) ==
    /\ UNCHANGED creation
    /\ pendingClose = 0
    /\ mountedRef
    /\ <<st, u>> \in SessionValues
    /\ <<st, u>> # <<status, userId>>
    /\ status' = st
    /\ userId' = u
    /\ connectTimeout' = IF st = "authenticated" /\ u # 0 THEN u ELSE 0
    /\ ev' = Ev("session")
    /\ streamRun' = NoRun
    /\ UNCHANGED <<refs, isConnected, projections, lastError, sockets,
                   reconnectTimers, pingTimers, delayedConnects, pendingClose>>

\* the setTimeout(100) callback of the readiness effect
EffectConnectFire ==
    /\ UNCHANGED creation
    /\ pendingClose = 0
    /\ connectTimeout # 0
    /\ connectTimeout' = 0
    /\ UNCHANGED <<reconnectTimers, pingTimers>>
    /\ IF mountedRef
       THEN connect(connectTimeout)
       ELSE UNCHANGED <<sockets, wsRef, connectingRef>>
    /\ ev' = [Ev("effectConnect") EXCEPT !.created =
                ~connectReturns(connectTimeout)]
    /\ streamRun' = NoRun
    /\ UNCHANGED <<mountedRef, reconnectTimeoutRef, pingIntervalRef,
                   reconnectAttemptsRef, isConnected, projections, lastError,
                   session, delayedConnects, pendingClose>>

\* --------------------------------------------------------------- unmount
Unmount ==
    /\ UNCHANGED creation
    /\ pendingClose = 0
    /\ mountedRef
    /\ mountedRef' = FALSE
    /\ cleanup
    /\ connectTimeout' = 0
    /\ ev' = Ev("unmount")
    /\ streamRun' = NoRun
    /\ UNCHANGED <<reconnectAttemptsRef, isConnected, projections, lastError,
                   session, delayedConnects, pendingClose>>

\* ------------------------------------------------------------ sendAction
IsLocked(gs) ==
    "is_player_input_locked" \in DOMAIN gs /\ gs["is_player_input_locked"] = TRUE

\* what a sendAction(action) call records before it sends anything
Called(action) == [Ev("sendAction") EXCEPT !.action = action]

\* mutant: the lock check is missing
sendAction_IgnoresLock(action) ==
    /\ UNCHANGED creation
    /\ pendingClose = 0
    /\ mountedRef
    /\ IF ReadyState(wsRef) = "OPEN"
       THEN /\ UNCHANGED lastError
            /\ ev' = [Called(action) EXCEPT !.sent =
                       {[type |-> "player_action", action |-> action,
                         sock |-> wsRef]}]
       ELSE /\ lastError' = "Cannot send action: not connected"
            /\ ev' = Called(action)
    /\ streamRun' = NoRun
    /\ UNCHANGED <<refs, isConnected, projections, session, sockets, timers,
                   pendingClose>>

\* mutant: sends on any socket handle, whatever its readyState
sendAction_IgnoresReadyState(action) ==
    /\ UNCHANGED creation
    /\ pendingClose = 0
    /\ mountedRef
    /\ IF IsLocked(gameState)
       THEN /\ lastError' = "Cannot send action: input is currently locked"
            /\ ev' = Called(action)
       ELSE IF wsRef # 0
       THEN /\ UNCHANGED lastError
            /\ ev' = [Called(action) EXCEPT !.sent =
                       {[type |-> "player_action", action |-> action,
                         sock |-> wsRef]}]
       ELSE /\ lastError' = "Cannot send action: not connected"
            /\ ev' = Called(action)
    /\ streamRun' = NoRun
    /\ UNCHANGED <<refs, isConnected, projections, session, sockets, timers,
                   pendingClose>>

\* mutant: a rejected call reports nothing
sendAction_SilentReject(action) ==
    /\ UNCHANGED creation
    /\ pendingClose = 0
    /\ mountedRef
    /\ IF ~IsLocked(gameState) /\ ReadyState(wsRef) = "OPEN"
       THEN ev' = [Called(action) EXCEPT !.sent =
                     {[type |-> "player_action", action |-> action,
                       sock |-> wsRef]}]
       ELSE ev' = Called(action)
    /\ streamRun' = NoRun
    /\ UNCHANGED <<refs, isConnected, projections, lastError, session,
                   sockets, timers, pendingClose>>

sendAction(action) ==
    /\ UNCHANGED creation
    /\ pendingClose = 0
    /\ mountedRef
    /\ IF IsLocked(gameState)
       THEN /\ lastError' = "Cannot send action: input is currently locked"
            /\ ev' = Called(action)
       ELSE IF ReadyState(wsRef) = "OPEN"
       THEN /\ UNCHANGED lastError
            /\ ev' = [Called(action) EXCEPT !.sent =
                       {[type |-> "player_action", action |-> action,
                         sock |-> wsRef]}]
       ELSE /\ lastError' = "Cannot send action: not connected"
            /\ ev' = Called(action)
    /\ streamRun' = NoRun
    /\ UNCHANGED <<refs, isConnected, projections, session, sockets, timers,
                   pendingClose>>

\* ---------------------------------------------------------- ws.onmessage
\* { ...prev, ...data }
Merge(prev, data) ==
    [k \in DOMAIN prev \cup DOMAIN data |->
        IF k \in DOMAIN data THEN data[k] ELSE prev[k]]

PartialMaps(keys, vals) == UNION {[d -> vals] : d \in SUBSET keys}

GameStateData == PartialMaps({"is_player_input_locked", "in_combat"}, BOOLEAN)
PlayerStateData == PartialMaps({"is_alive"}, BOOLEAN)

MsgIds == {"m1", "m2"}
Contents == {"Hel", "Hello!"}
Now == "now"   \* new Date().toISOString()

Entry(id, speaker, content) ==
    [id |-> id, speaker |-> speaker, content |-> content,
     timestamp |-> "t1", typing |-> "undef"]

\* chat_history lists the server sends in initial_state
InitialHistories ==
    {<<>>, <<Entry("m1", "narrator", "Hel")>>,
     <<Entry("m2", "narrator", "Hel"), Entry("m1", "npc", "Hello!")>>}

\* streaming_message frames: narration id, content and typing, with or
\* without a speaker and a timestamp
StreamingFrames ==
    {[type |-> "streaming_message", id |-> i, content |-> c,
      typing |-> ty, speaker |-> sp, timestamp |-> ts] :
        i \in MsgIds, c \in Contents, ty \in {"true", "false"},
        sp \in {"", "npc"}, ts \in {"", "t2"}}

Frames ==
    {[type |-> t] : t \in {"connection_confirmed", "pong", "unknown",
                            "malformed"}}
    \cup {[type |-> "initial_state", game_state |-> g, player_state |-> p,
           chat_history |-> h] :
            g \in GameStateData, p \in PlayerStateData, h \in InitialHistories}
    \cup {[type |-> "lock_player_input", is_locked |-> b] : b \in BOOLEAN}
    \cup {[type |-> "chat_message", data |-> Entry(i, "npc", c)] :
            i \in MsgIds, c \in Contents}
    \cup {[type |-> "session_state_update", game_state |-> g,
           player_state |-> p] :
            g \in GameStateData, p \in PlayerStateData}
    \cup {[type |-> "action_result", narration |-> Entry(i, "narrator", c),
           player_state |-> p] :
            i \in MsgIds, c \in Contents, p \in PlayerStateData}
    \cup StreamingFrames
    \cup {[type |-> "error", message |-> "Invalid action"]}
    \cup {[type |-> "error", data |-> Undefined]}

\* JSON.parse(event.data) returns a message
Decoded(m) == m.type # "malformed"

\* message.data.message of a frame without data: a TypeError, raised in the
\* try block before onMessage is reached
Throws(m) == m.type = "error" /\ "message" \notin DOMAIN m

\* the catch block runs
Caught(m) == ~Decoded(m) \/ Throws(m)

\* prev.findIndex((msg) => msg.id === messageId), 0 for -1
FindIndex(prev, id) ==
    IF \E i \in 1..Len(prev) : prev[i].id = id
    THEN CHOOSE i \in 1..Len(prev) :
            /\ prev[i].id = id
            /\ \A j \in 1..(i - 1) : prev[j].id # id
    ELSE 0

\* mutant: the updater never looks for an existing entry
Coalesce_AlwaysAppend(prev, m) ==
    Append(prev,
        [id |-> m.id,
         speaker |-> IF m.speaker # "" THEN m.speaker ELSE "narrator",
         content |-> m.content,
         timestamp |-> IF m.timestamp # "" THEN m.timestamp ELSE Now,
         typing |-> m.typing])

\* mutant: an update moves the entry to the end of the list
Coalesce_MoveToEnd(prev, m) ==
    LET idx == FindIndex(prev, m.id)
        ts == IF m.timestamp # "" THEN m.timestamp ELSE Now
        rest == SelectSeq(prev, LAMBDA e : e.id # m.id)
    IN Append(rest,
           [id |-> m.id,
            speaker |-> IF idx # 0 THEN prev[idx].speaker
                        ELSE IF m.speaker # "" THEN m.speaker ELSE "narrator",
            content |-> m.content, timestamp |-> ts, typing |-> m.typing])

\* mutant: an update keeps the content the entry had
Coalesce_KeepsContent(prev, m) ==
    LET idx == FindIndex(prev, m.id)
        ts == IF m.timestamp # "" THEN m.timestamp ELSE Now
    IN IF idx # 0
       THEN [prev EXCEPT ![idx] = [@ EXCEPT !.timestamp = ts,
                                           !.typing = m.typing]]
       ELSE Append(prev,
                [id |-> m.id,
                 speaker |-> IF m.speaker # "" THEN m.speaker ELSE "narrator",
                 content |-> m.content, timestamp |-> ts,
                 typing |-> m.typing])

\* mutant: an entry with a new id is put in front of the list
Coalesce_InsertsFirst(prev, m) ==
    LET idx == FindIndex(prev, m.id)
        ts == IF m.timestamp # "" THEN m.timestamp ELSE Now
    IN IF idx # 0
       THEN [prev EXCEPT ![idx] = [@ EXCEPT !.content = m.content,
                                           !.timestamp = ts,
                                           !.typing = m.typing]]
       ELSE <<[id |-> m.id,
               speaker |-> IF m.speaker # "" THEN m.speaker ELSE "narrator",
               content |-> m.content, timestamp |-> ts,
               typing |-> m.typing]>> \o prev

\* the setChatHistory updater of streaming_message
Coalesce(prev, m) ==
    LET idx == FindIndex(prev, m.id)
        ts == IF m.timestamp # "" THEN m.timestamp ELSE Now
    IN IF idx # 0
       THEN [prev EXCEPT ![idx] = [@ EXCEPT !.content = m.content,
                                           !.timestamp = ts,
                                           !.typing = m.typing]]
       ELSE Append(prev,
                [id |-> m.id,
                 speaker |-> IF m.speaker # "" THEN m.speaker ELSE "narrator",
                 content |-> m.content, timestamp |-> ts,
                 typing |-> m.typing])

ChatHistoryAfter(prev, m) ==
    CASE m.type = "initial_state" -> m.chat_history
      [] m.type = "chat_message" -> Append(prev, m.data)
      [] m.type = "action_result" -> Append(prev, m.narration)
      [] m.type = "streaming_message" -> Coalesce(prev, m)
      [] OTHER -> prev

\* mutant: lock_player_input replaces Game State by the flag alone
GameStateAfter_LockReplaces(prev, m) ==
    CASE m.type \in {"initial_state", "session_state_update"} ->
            Merge(prev, m.game_state)
      [] m.type = "lock_player_input" ->
            [k \in {"is_player_input_locked"} |-> m.is_locked]
      [] OTHER -> prev

GameStateAfter(prev, m) ==
    CASE m.type \in {"initial_state", "session_state_update"} ->
            Merge(prev, m.game_state)
      [] m.type = "lock_player_input" ->
            Merge(prev, [k \in {"is_player_input_locked"} |-> m.is_locked])
      [] OTHER -> prev

PlayerStateAfter(prev, m) ==
    CASE m.type \in {"initial_state", "session_state_update",
                     "action_result"} -> Merge(prev, m.player_state)
      [] OTHER -> prev

\* mutant: an error frame is forwarded but not kept as Pending Error
LastErrorAfter_DropsFrameError(prev, m) ==
    CASE Caught(m) -> "Failed to parse server message"
      [] OTHER -> prev

\* mutant: the catch block swallows the failure
LastErrorAfter_Silent(prev, m) ==
    CASE Caught(m) -> prev
      [] m.type = "error" -> m.message
      [] OTHER -> prev

LastErrorAfter(prev, m) ==
    CASE Caught(m) -> "Failed to parse server message"
      [] m.type = "error" -> m.message
      [] OTHER -> prev

StreamRunAfter(m) ==
    IF m.type # "streaming_message" THEN NoRun
    ELSE IF streamRun.id = m.id
    THEN [id |-> m.id, n |-> 2, last |-> m.content]
    ELSE IF FindIndex(chatHistory, m.id) = 0
    THEN [id |-> m.id, n |-> 1, last |-> m.content]
    ELSE NoRun

\* a message event on socket s carrying frame m
OnMessage(s, m) ==
    /\ UNCHANGED creation
    /\ pendingClose = 0
    /\ s \in 1..MaxSockets
    /\ sockets[s].est
    /\ sockets[s].readyState = "OPEN"
    /\ m \in Frames
    /\ IF ~mountedRef
       THEN /\ UNCHANGED <<projections, lastError>>
            /\ streamRun' = NoRun
            /\ ev' = [Ev("onmessage") EXCEPT !.type = m.type, !.sock = s]
       ELSE /\ Len(ChatHistoryAfter(chatHistory, m)) <= MaxChat
            /\ chatHistory' = ChatHistoryAfter(chatHistory, m)
            /\ gameState' = GameStateAfter(gameState, m)
            /\ playerState' = PlayerStateAfter(playerState, m)
            /\ lastError' = LastErrorAfter(lastError, m)
            /\ streamRun' = StreamRunAfter(m)
            /\ ev' = [Ev("onmessage") EXCEPT
                        !.type = m.type,
                        !.sock = s,
                        !.calls =
                           IF Caught(m) THEN {}
                           ELSE (IF m.type = "error" THEN {"onError"} ELSE {})
                                \cup {"onMessage"}]
    /\ UNCHANGED <<refs, isConnected, session, sockets, timers, pendingClose>>

\* ------------------------------------------- character creation (point buy)
\* getStatCost
getStatCost(value) ==
    IF value <= 13 THEN value - 8
    ELSE IF value = 14 THEN 7
    ELSE IF value = 15 THEN 9
    ELSE 0

RECURSIVE SumCost(_, _)
SumCost(st, names) ==
    IF names = {} THEN 0
    ELSE LET n == CHOOSE x \in names : TRUE
         IN getStatCost(st[n]) + SumCost(st, names \ {n})

\* getTotalSpentPoints over the stats of a render
getTotalSpentPoints(st) == SumCost(st, DOMAIN st)

\* the effect of the first render: it runs in a task of its own after the
\* first commit, so a click can be handled before it
MountEffect ==
    /\ mountEffectPending
    /\ availablePoints' = POINT_BUDGET - getTotalSpentPoints(stats)
    /\ mountEffectPending' = FALSE
    /\ UNCHANGED <<stats, hook>>

\* adjustStat, called from a click: the budget test reads the availablePoints
\* of the render that created the handler; an accepted call re-renders and
\* the effect on playerState.stats recomputes availablePoints before the
\* next event is handled (a pending first effect is flushed before it)
adjustStat(statName, delta) ==
    LET currentValue == stats[statName]
        newValue == currentValue + delta
        costDiff == getStatCost(newValue) - getStatCost(currentValue)
    IN /\ IF \/ newValue < MIN_STAT
             \/ newValue > MAX_STAT
             \/ costDiff > availablePoints
          THEN UNCHANGED creation
          ELSE /\ stats' = [stats EXCEPT ![statName] = newValue]
               /\ availablePoints' = POINT_BUDGET - getTotalSpentPoints(stats')
               /\ mountEffectPending' = FALSE
       /\ UNCHANGED hook

\* ------------------------------------------------------- specifications
\* The session resolves, once, to an authenticated user.
Resolve ==
    /\ status = "loading"
    /\ SessionUpdate("authenticated", 1)

SocketEvents ==
    \/ \E s \in 1..MaxSockets : OnOpen(s)
    \/ \E s \in 1..MaxSockets : OnError(s)
    \/ \E s \in 1..MaxSockets, code \in CloseCodes : OnClose(s, code)

Lifecycle ==
    \/ Resolve
    \/ EffectConnectFire
    \/ reconnect
    \/ \E u \in 0..NUsers : DelayedConnectFire(u)
    \/ Unmount
    \/ SocketEvents
    \/ \E t \in reconnectTimers : ReconnectTimeoutFire(t)
    \/ \E s \in 1..MaxSockets : PingTick(s)

GateFrames ==
    {m \in Frames : m.type \in {"lock_player_input", "error"} /\ ~Throws(m)}

\* Spec: the connection lifecycle under every interleaving of UI calls,
\* timers and socket events, with the frames that set the lock and the error.
Next ==
    \/ Lifecycle
    \/ \E s \in 1..MaxSockets, m \in GateFrames : OnMessage(s, m)

Spec == Init /\ [][Next]_vars

\* SpecGate: the Action Gate against every state of the current socket
\* (none, connecting, open, closed) without manual reconnects.
GateNext ==
    \/ Resolve
    \/ EffectConnectFire
    \/ Unmount
    \/ SocketEvents
    \/ \E t \in reconnectTimers : ReconnectTimeoutFire(t)
    \/ \E s \in 1..MaxSockets : PingTick(s)
    \/ \E a \in PlayerActions : sendAction(a)
    \/ \E s \in 1..MaxSockets, m \in GateFrames : OnMessage(s, m)

SpecGate == Init /\ [][GateNext]_vars

\* SpecChat: the Message Dispatcher's effect on Chat History, over one
\* connection and its automatic reconnections.
ChatFrames ==
    {m \in Frames :
        \/ m.type \in {"chat_message", "streaming_message"}
        \/ /\ m.type = "action_result"
           /\ m.player_state = EmptyMap
        \/ /\ m.type = "initial_state"
           /\ m.game_state = EmptyMap
           /\ m.player_state = EmptyMap}

ChatNext ==
    \/ Resolve
    \/ EffectConnectFire
    \/ \E s \in 1..MaxSockets : OnOpen(s)
    \/ \E s \in 1..MaxSockets, code \in CloseCodes : OnClose(s, code)
    \/ \E t \in reconnectTimers : ReconnectTimeoutFire(t)
    \/ \E s \in 1..MaxSockets, m \in ChatFrames : OnMessage(s, m)

SpecChat == Init /\ [][ChatNext]_vars

\* SpecDispatch: the Message Dispatcher over one open connection, with a
\* frame of every type, frames that do not parse and a frame without data.
DispatchFrames ==
    {m \in Frames :
        CASE m.type \in {"chat_message"} ->
                m.data.id = "m1" /\ m.data.content = "Hel"
          [] m.type = "action_result" ->
                m.narration.id = "m1" /\ m.narration.content = "Hel"
          [] m.type = "streaming_message" ->
                /\ m.id = "m1"
                /\ m.typing = "true"
                /\ m.speaker = ""
                /\ m.timestamp = ""
          [] OTHER -> TRUE}

DispatchNext ==
    \/ Resolve
    \/ EffectConnectFire
    \/ \E s \in 1..MaxSockets : OnOpen(s)
    \/ \E s \in 1..MaxSockets, m \in DispatchFrames : OnMessage(s, m)

SpecDispatch == Init /\ [][DispatchNext]_vars

\* SpecAuth: the session changes at any time (sign-in, sign-out, another
\* user) while the connection fails, closes and retries.
AuthNext ==
    \/ \E v \in SessionValues : SessionUpdate(v[1], v[2])
    \/ EffectConnectFire
    \/ SocketEvents
    \/ \E t \in reconnectTimers : ReconnectTimeoutFire(t)

SpecAuth == Init /\ [][AuthNext]_vars

\* SpecRace: the connection lifecycle of Spec without frames, with closes
\* that the peer starts.
RaceNext ==
    \/ Lifecycle
    \/ \E s \in 1..MaxSockets : OnClosingHandshake(s)

SpecRace == Init /\ [][RaceNext]_vars

\* SpecCreation: the character creation view, from its first render.
CreationNext ==
    \/ MountEffect
    \/ \E n \in StatNames, d \in {-1, 1} : adjustStat(n, d)

SpecCreation == Init /\ [][CreationNext]_vars

\* ------------------------------------------------------------ properties
Sent == ev.sent

\* C1: sendAction transmits no frame while Game State's input-locked flag
\* is true, whatever the connection state (sendAction leaves Game State and
\* the sockets as they were, so the state after the call shows both).
C1_LockedNoSend ==
    (ev.op = "sendAction" /\ IsLocked(gameState)) => Sent = {}

\* a lock_player_input {is_locked: true} frame was applied, then sendAction
\* was called on an open connection and rejected
C1_Witness ==
    /\ ev.op = "sendAction"
    /\ IsLocked(gameState)
    /\ ReadyState(wsRef) = "OPEN"
    /\ Sent = {}
    /\ lastError = "Cannot send action: input is currently locked"

\* C2: sendAction transmits no frame unless the hook's socket handle is in
\* readyState OPEN, and what it transmits goes to that handle.
C2_NotOpenNoSend ==
    ev.op = "sendAction" =>
        /\ ReadyState(wsRef) # "OPEN" => Sent = {}
        /\ \A f \in Sent : f.sock = wsRef /\ f.type = "player_action"

\* sendAction was called unlocked on a closed socket and rejected
C2_Witness ==
    /\ ev.op = "sendAction"
    /\ ~IsLocked(gameState)
    /\ ReadyState(wsRef) = "CLOSED"
    /\ Sent = {}
    /\ lastError = "Cannot send action: not connected"

OpenSockets == {s \in 1..MaxSockets : sockets[s].readyState = "OPEN"}

\* C3: at most one socket of the hook is open at any time, and every socket
\* other than the current handle has been closed (is closing or closed).
C3_AtMostOneOpen ==
    /\ Cardinality(OpenSockets) <= 1
    /\ \A s \in 1..MaxSockets :
          s # wsRef => sockets[s].readyState \in {"NONE", "CLOSING", "CLOSED"}

\* a replacement socket is open while the one it replaced is still closing
C3_Witness ==
    /\ ReadyState(wsRef) = "OPEN"
    /\ \E s \in 1..MaxSockets : s # wsRef /\ sockets[s].readyState = "CLOSING"

\* C4: the delay of every automatic retry is RECONNECT_DELAY * 2^attempt for
\* attempt 0..4, so one of 1000, 2000, 4000, 8000, 16000, and the attempt
\* counter never passes MAX_RECONNECT_ATTEMPTS: there is no 6th automatic
\* attempt without a successful open in between.
C4_BoundedBackoff ==
    /\ reconnectAttemptsRef <= MAX_RECONNECT_ATTEMPTS
    /\ ev.delay # 0 =>
          /\ ev.delay = RECONNECT_DELAY * Pow2(reconnectAttemptsRef)
          /\ ev.delay \in {RECONNECT_DELAY * Pow2(k) : k \in 0..4}

PendingDelayedConnect == \E u \in DOMAIN delayedConnects : delayedConnects[u] > 0

\* C5: from reconnect() until the connect it scheduled begins, the attempt
\* counter is 0 and Pending Error is cleared.
C5_ReconnectResets ==
    (mountedRef /\ PendingDelayedConnect) =>
        (reconnectAttemptsRef = 0 /\ lastError = Null)

\* C6: after unmount no timer is pending (keepalive interval, automatic
\* reconnect timeout, delayed connect of the effect or of reconnect()) and
\* no socket is connecting or open.
C6_UnmountClean ==
    ~mountedRef =>
        /\ pingTimers = {}
        /\ reconnectTimers = {}
        /\ connectTimeout = 0
        /\ ~PendingDelayedConnect
        /\ \A s \in 1..MaxSockets :
              sockets[s].readyState \in {"NONE", "CLOSING", "CLOSED"}

SocketCreated ==
    \E s \in 1..MaxSockets :
        /\ sockets'[s].readyState = "CONNECTING"
        /\ sockets[s].readyState # "CONNECTING"

\* C7: once the view is unmounted, no step (socket callback or timer
\* callback) changes Chat History, Game State, Player State, Pending Error
\* or the connected indicator, constructs a socket or sends a frame.
C7_InertAfterUnmount ==
    [][~mountedRef =>
          /\ UNCHANGED <<chatHistory, gameState, playerState, lastError,
                         isConnected>>
          /\ ~SocketCreated
          /\ ev'.sent = {}]_vars

\* the error event of the socket that the unmount closed while it was
\* connecting arrived after the unmount and surfaced nothing
C7_Witness ==
    /\ ~mountedRef
    /\ ev.op = "onerror"
    /\ ev.calls = {}
    /\ pendingClose # 0
    /\ lastError = Null

\* h2 is h with one entry added at the end
Appended(h, h2) ==
    Len(h2) = Len(h) + 1 /\ SubSeq(h2, 1, Len(h)) = h

\* h2 is h with the content (and timestamp, typing) of one entry replaced
Replaced(h, h2) ==
    /\ Len(h2) = Len(h)
    /\ \E i \in 1..Len(h) :
          /\ h2[i].id = h[i].id
          /\ h2[i].speaker = h[i].speaker
          /\ \A j \in 1..Len(h) : j # i => h2[j] = h[j]

Grows(h, h2) == h2 = h \/ Appended(h, h2) \/ Replaced(h, h2)

\* every entry of h is still in h2, at its index
Kept(h, h2) ==
    /\ Len(h2) >= Len(h)
    /\ \A i \in 1..Len(h) : h2[i].id = h[i].id

\* C8 as claimed: no step removes or reorders Chat History entries: the
\* length never decreases and every entry keeps its index.
C8_NeverRemoved == [][Kept(chatHistory, chatHistory')]_vars

\* C8 amended: every frame but initial_state leaves Chat History unchanged,
\* adds one entry at the end or replaces the content of one entry in place;
\* initial_state replaces Chat History by the list it carries.
C8_OnlyInitialStateReplaces ==
    [][IF ev'.type = "initial_state" /\ mountedRef
       THEN chatHistory' \in InitialHistories
       ELSE Grows(chatHistory, chatHistory')]_vars

\* a streaming_message has just replaced the first entry in place, with a
\* later entry of another kind left where it was
C8_Witness ==
    /\ ev.type = "streaming_message"
    /\ Len(chatHistory) = 2
    /\ chatHistory[1].typing = "true"
    /\ chatHistory[2].typing = "undef"

WithId(h, id) == {i \in 1..Len(h) : h[i].id = id}

\* C9: after one or more streaming_message frames with the same id, applied
\* to a Chat History that had no entry with that id, exactly one entry has
\* that id and its content is the last frame's content.
C9_StreamingConverges ==
    streamRun.n >= 1 =>
        /\ Cardinality(WithId(chatHistory, streamRun.id)) = 1
        /\ \A i \in WithId(chatHistory, streamRun.id) :
              chatHistory[i].content = streamRun.last

\* two frames for "m1" on an empty history, the last with "Hello!"
C9_Witness ==
    /\ streamRun = [id |-> "m1", n |-> 2, last |-> "Hello!"]
    /\ Len(chatHistory) = 1
    /\ chatHistory[1].id = "m1"
    /\ chatHistory[1].content = "Hello!"

UniqueIds(h) == \A i, j \in 1..Len(h) : h[i].id = h[j].id => i = j

\* C10 as claimed: no two Chat History entries ever have the same id.
C10_UniqueIds == UniqueIds(chatHistory)

\* C10 amended: a streaming_message never creates a duplicate id (the number
\* of entries with each id stays, or goes from 0 to 1), and ids stop being
\* unique only when a chat_message or action_result appends an entry whose
\* id is already present.
C10_StreamingKeepsUnique ==
    [][/\ ev'.type = "streaming_message" =>
            \A id \in MsgIds :
                LET before == Cardinality(WithId(chatHistory, id))
                    after == Cardinality(WithId(chatHistory', id))
                IN after = before \/ (before = 0 /\ after = 1)
       /\ (UniqueIds(chatHistory) /\ ~UniqueIds(chatHistory')) =>
            /\ ev'.type \in {"chat_message", "action_result"}
            /\ Appended(chatHistory, chatHistory')
            /\ WithId(chatHistory, chatHistory'[Len(chatHistory')].id) # {}
      ]_vars

\* a streaming_message has just updated an entry that was already there,
\* in a history of two entries with distinct ids
C10_Witness ==
    /\ ev.type = "streaming_message"
    /\ streamRun.n = 0
    /\ Len(chatHistory) = 2
    /\ UniqueIds(chatHistory)

Exhausted == reconnectAttemptsRef >= MAX_RECONNECT_ATTEMPTS

\* C11: a socket that opens while the view is mounted leaves the attempt
\* counter at 0 and Pending Error cleared (and the connected indicator set),
\* whatever the counter and the error were.
C11_OpenResets ==
    (ev.op = "onopen" /\ mountedRef) =>
        /\ reconnectAttemptsRef = 0
        /\ lastError = Null
        /\ isConnected

\* the socket of the fourth attempt opens: the counter was 3
C11_Witness ==
    /\ ev.op = "onopen"
    /\ mountedRef
    /\ ev.attempts = 3
    /\ ev.sock = wsRef
    /\ reconnectAttemptsRef = 0
    /\ lastError = Null

\* C12 as claimed: the close event of the current socket with code 1000, or
\* with the attempt counter at the ceiling, arms no reconnect timeout, and
\* once it is handled no automatic retry is pending: unless reconnect() or
\* the readiness effect has a connect scheduled, nothing will connect again.
C12_FinalCloseEndsRetries ==
    (/\ ev.op = "onclose"
     /\ mountedRef
     /\ ev.sock = wsRef
     /\ (ev.code = NORMAL_CLOSURE \/ Exhausted)) =>
        /\ ev.delay = 0
        /\ (connectTimeout = 0 /\ ~PendingDelayedConnect) =>
              reconnectTimers = {}

C14_InitialStateReplaces ==
    [][\A s \in 1..MaxSockets, m \in DispatchFrames :
          (m.type = "initial_state" /\ mountedRef /\ OnMessage(s, m)) =>
              /\ gameState' = m.game_state
              /\ playerState' = m.player_state
              /\ chatHistory' = m.chat_history]_vars

\* C15: the error event of a socket sets Pending Error and calls onError
\* (while mounted) and does nothing else to the connection: the connected
\* indicator, the socket handle, the attempt counter and every timer stay as
\* they were and no socket is created; the close event that follows arms at
\* most one reconnect timeout, so the pair causes at most one retry.
C15_ErrorDoesNotDrive ==
    [][/\ ev'.op = "onerror" =>
            /\ UNCHANGED <<isConnected, wsRef, reconnectAttemptsRef,
                           reconnectTimeoutRef, pingIntervalRef, timers>>
            /\ ~SocketCreated
            /\ ev'.delay = 0
            /\ mountedRef => /\ lastError' = "WebSocket connection error"
                             /\ ev'.calls = {"onError"}
       /\ pendingClose # 0 =>
            /\ ev'.op = "onclose"
            /\ ev'.sock = pendingClose
            /\ reconnectAttemptsRef' = reconnectAttemptsRef
            /\ ~SocketCreated
            /\ Cardinality(reconnectTimers' \ reconnectTimers) <= 1
      ]_vars

\* the error event of the current socket was handled, its close event is
\* still to come, and no retry is scheduled yet
C15_Witness ==
    /\ ev.op = "onerror"
    /\ mountedRef
    /\ pendingClose = wsRef
    /\ wsRef # 0
    /\ lastError = "WebSocket connection error"
    /\ reconnectTimers = {}
    /\ reconnectAttemptsRef = 2

\* C16 as claimed: no step creates a socket while the socket that the hook
\* holds is still connecting.
C16_ConnectCollapses ==
    [][ReadyState(wsRef) = "CONNECTING" => ~SocketCreated]_vars

\* C17: a frame that does not parse sets Pending Error to the parse-failure
\* message and does nothing else: the projections, the sockets, the
\* connected indicator, the refs and the timers are unchanged and the
\* onMessage observer is not called.
C17_DecodeFailureDropped ==
    [][(ev'.op = "onmessage" /\ ev'.type = "malformed" /\ mountedRef) =>
          /\ lastError' = "Failed to parse server message"
          /\ ev'.calls = {}
          /\ ev'.sent = {}
          /\ UNCHANGED <<projections, refs, isConnected, sockets, timers>>
      ]_vars

\* a frame that does not parse arrived on the open socket after frames that
\* filled Chat History and locked the input
C17_Witness ==
    /\ ev.op = "onmessage"
    /\ ev.type = "malformed"
    /\ lastError = "Failed to parse server message"
    /\ ReadyState(wsRef) = "OPEN"
    /\ isConnected
    /\ Len(chatHistory) = 2
    /\ IsLocked(gameState)

\* C18 as claimed: every frame that parses is passed to the onMessage
\* observer, whatever its type and whatever its data.
C18_ForwardedAlways ==
    (ev.op = "onmessage" /\ mountedRef /\ ev.type # "malformed") =>
        "onMessage" \in ev.calls

\* C19: a sendAction call that finds the input locked or the socket handle
\* not open sets Pending Error to the message of its cause, sends nothing
\* and changes nothing else.
C19_RejectionIsLocal ==
    [][(ev'.op = "sendAction"
        /\ (IsLocked(gameState) \/ ReadyState(wsRef) # "OPEN")) =>
          /\ lastError' = IF IsLocked(gameState)
                          THEN "Cannot send action: input is currently locked"
                          ELSE "Cannot send action: not connected"
          /\ ev'.sent = {}
          /\ ev'.calls = {}
          /\ UNCHANGED <<projections, refs, isConnected, sockets, timers,
                         session>>
      ]_vars

\* sendAction("north") was rejected during a backoff: the reconnect timeout
\* is still pending
C19_Witness ==
    /\ ev.op = "sendAction"
    /\ ev.action = "north"
    /\ Sent = {}
    /\ lastError = "Cannot send action: not connected"
    /\ reconnectTimers = {wsRef}
    /\ reconnectAttemptsRef = 1

C21_ConnectsWhenResolved ==
    [][\A s \in 1..MaxSockets :
          (sockets'[s].readyState = "CONNECTING"
           /\ sockets[s].readyState # "CONNECTING") =>
              /\ status = "authenticated"
              /\ userId # 0
              /\ sockets'[s].userId = userId]_vars

\* C22: an error frame that carries a message sets Pending Error to that
\* message and calls onError (and the onMessage observer), and changes
\* nothing else: the projections, the sockets, the connected indicator, the
\* refs and the timers stay as they were.
C22_ErrorFrameOnly ==
    [][(ev'.op = "onmessage" /\ ev'.type = "error" /\ mountedRef) =>
       \A m \in DispatchFrames :
          (m.type = "error" /\ ~Throws(m) /\ OnMessage(ev'.sock, m)) =>
              /\ lastError' = m.message
              /\ ev'.calls = {"onError", "onMessage"}
              /\ ev'.delay = 0
              /\ UNCHANGED <<projections, refs, isConnected, sockets,
                             timers>>]_vars

\* an error frame arrived on the open socket while Chat History held two
\* entries and the player was alive
C22_Witness ==
    /\ ev.op = "onmessage"
    /\ ev.type = "error"
    /\ lastError = "Invalid action"
    /\ "onError" \in ev.calls
    /\ ReadyState(wsRef) = "OPEN"
    /\ Len(chatHistory) = 2
    /\ "is_alive" \in DOMAIN playerState

LockKey == "is_player_input_locked"

\* C23: a lock_player_input frame sets the input-locked flag of Game State
\* to the boolean it carries and leaves every other Game State attribute,
\* Player State, Chat History and Pending Error as they were.
C23_LockFrameOnly ==
    [][(ev'.op = "onmessage" /\ ev'.type = "lock_player_input" /\ mountedRef) =>
       \A m \in DispatchFrames :
          (m.type = "lock_player_input" /\ OnMessage(ev'.sock, m)) =>
              /\ DOMAIN gameState' = DOMAIN gameState \cup {LockKey}
              /\ gameState'[LockKey] = m.is_locked
              /\ \A k \in DOMAIN gameState \ {LockKey} :
                    gameState'[k] = gameState[k]
              /\ UNCHANGED <<playerState, chatHistory, lastError>>]_vars

\* a frame locked the input while Game State held in_combat and Pending
\* Error was set
C23_Witness ==
    /\ ev.op = "onmessage"
    /\ ev.type = "lock_player_input"
    /\ IsLocked(gameState)
    /\ "in_combat" \in DOMAIN gameState
    /\ gameState["in_combat"] = TRUE
    /\ lastError = "Invalid action"
    /\ Len(chatHistory) = 1

\* C24: a streaming_message whose id is in Chat History changes only the
\* first entry with that id, at its index (same id and speaker, the
\* frame's content): the length and all other entries are unchanged; one
\* whose id is new adds one entry at the end, with the frame's id and
\* content and the frame's speaker, or narrator when it has none.
C24_CoalescingKeepsOrder ==
    [][(ev'.op = "onmessage" /\ ev'.type = "streaming_message" /\ mountedRef) =>
       \A m \in StreamingFrames :
          OnMessage(ev'.sock, m) =>
              LET idx == FindIndex(chatHistory, m.id)
                  n == Len(chatHistory)
              IN IF idx # 0
                 THEN /\ Len(chatHistory') = n
                      /\ \A j \in 1..n :
                            j # idx => chatHistory'[j] = chatHistory[j]
                      /\ chatHistory'[idx].id = m.id
                      /\ chatHistory'[idx].speaker = chatHistory[idx].speaker
                      /\ chatHistory'[idx].content = m.content
                 ELSE /\ Appended(chatHistory, chatHistory')
                      /\ chatHistory'[n + 1].id = m.id
                      /\ chatHistory'[n + 1].content = m.content
                      /\ chatHistory'[n + 1].speaker =
                            IF m.speaker # "" THEN m.speaker ELSE "narrator"
      ]_vars

\* a fragment with a new id and no speaker was added behind a chat message
\* as a narrator entry
C24_Witness ==
    /\ ev.type = "streaming_message"
    /\ streamRun.n = 1
    /\ Len(chatHistory) = 2
    /\ chatHistory[1].typing = "undef"
    /\ chatHistory[1].speaker = "npc"
    /\ chatHistory[2].id = streamRun.id
    /\ chatHistory[2].speaker = "narrator"
    /\ chatHistory[2].timestamp = Now

\* C25 as claimed: a ping is sent only on an open socket while the view is
\* mounted, and a keepalive interval is active only for a socket whose
\* connection has not closed: once the close event of a socket is handled,
\* the interval its onopen started is gone.
C25_KeepaliveOnlyWhileOpen ==
    /\ \A f \in Sent :
          f.type = "ping" =>
              mountedRef /\ sockets[f.sock].readyState = "OPEN"
    /\ pendingClose = 0 =>
          \A s \in pingTimers : sockets[s].readyState \in {"OPEN", "CLOSING"}

\* C26 as claimed: while the view is mounted, the connected indicator is
\* true exactly when the socket the hook holds is open (the state between an
\* error event and its close event aside).
C26_IndicatorMatchesSocket ==
    (mountedRef /\ pendingClose = 0) =>
        (isConnected <=> ReadyState(wsRef) = "OPEN")

\* C27 as claimed: while the view is mounted and the socket the hook holds
\* is open, the keepalive interval of that socket is active and is the one
\* pingIntervalRef holds.
C27_KeepaliveWhileOpen ==
    (mountedRef /\ pendingClose = 0 /\ ReadyState(wsRef) = "OPEN") =>
        (wsRef \in pingTimers /\ pingIntervalRef = wsRef)

\* C28 as claimed: at most one reconnect timeout is pending, it is the one
\* reconnectTimeoutRef holds (so cleanup() cancels it), the attempt counter
\* never passes 5 and no reconnect timeout is pending after unmount.
C28_OneReconnectTimer ==
    /\ Cardinality(reconnectTimers) <= 1
    /\ reconnectTimers \subseteq {reconnectTimeoutRef}
    /\ reconnectAttemptsRef <= MAX_RECONNECT_ATTEMPTS
    /\ ~mountedRef => reconnectTimers = {}

\* C29: Chat History, Game State and Player State change only in a message
\* event of the socket the hook holds, and a message event handled while
\* mounted is always one of that socket: a socket that was replaced or
\* released has been closed, and a socket that is not open delivers none.
C29_OnlyCurrentSocketMutates ==
    [][/\ (mountedRef /\ ev'.op = "onmessage") => ev'.sock = wsRef
       /\ projections' # projections =>
             /\ ev'.op = "onmessage"
             /\ ev'.sock = wsRef
             /\ ReadyState(wsRef) = "OPEN"]_vars

\* a frame on the current socket locked the input while the socket that
\* reconnect() replaced was still closing
C29_Witness ==
    /\ ev.op = "onmessage"
    /\ ev.sock = wsRef
    /\ IsLocked(gameState)
    /\ \E s \in 1..MaxSockets :
          /\ s # wsRef
          /\ sockets[s].est
          /\ sockets[s].readyState = "CLOSING"

\* C30: in character creation every stat stays within 8..15, the point-buy
\* cost of the stats never exceeds the 27 points of the budget, and the
\* available points never become negative.
C30_WithinBudget ==
    /\ \A n \in StatNames : stats[n] \in MIN_STAT..MAX_STAT
    /\ getTotalSpentPoints(stats) <= POINT_BUDGET
    /\ availablePoints >= 0

====
